---- MODULE Spec2Model ----
(***************************************************************************)
(* A model of tools/generate_embeddings.py: the vector codec               *)
(* (serialize_embedding / deserialize_embedding), the batch pipeline       *)
(* (generate_embeddings), the by-identifier entry point                    *)
(* (generate_paper_embedding) and the dispatch in main.  The ad-hoc query  *)
(* mode (generate_single_embedding, tools/query_embedding.py) touches no   *)
(* store and is left out.                                                  *)
(*                                                                         *)
(* The SQLite store is modelled as the committed contents of index.db      *)
(* (dbExists, papers, tableExists, dbRows) and the view of the open        *)
(* connection (txnRows), which holds the upserts made since the last       *)
(* commit.  A process that ends without a commit loses them.               *)
(***************************************************************************)
EXTENDS Integers, Sequences, FiniteSets, TLC

VARIABLES
    dbExists,     \* index.db exists in the cache directory
    papers,       \* papers table: identifier -> [title, abstract]
    tableExists,  \* the embeddings table exists (committed)
    dbRows,       \* committed rows of the embeddings table
    txnRows,      \* rows as seen by the open connection (uncommitted included)
    script,       \* command lines the caller still has to issue
    args,         \* parsed arguments of the running process
    pc,           \* position of the running process
    sel,          \* papers: the fetched selection, a sequence of identifiers
    total_papers, \* len(papers)
    processed,    \* cumulative processed count
    i,            \* loop variable of range(0, total_papers, batch_size)
    embeddings,   \* result of model.encode for the current batch
    stdout,       \* message lines printed by the running process
    progress,     \* progress lines printed by the running process
    exitCode,     \* exit status of the process (-1 while it runs)
    error,        \* what ended the process with a failure ("" for none)
    commits,      \* commits of the running process, each with its place
    now,          \* datetime('now'), one tick per process
    rowsAtSelect, \* history: the connection's rows when the work was selected
    rowsAtStart,  \* history: the committed rows when the process started
    failedBatch,  \* history: identifiers of the batch whose encode call failed
    finished,     \* history: one summary per terminated process
    vecIn,        \* codec: the vector handed to serialize_embedding
    blob,         \* codec: the serialized bytes
    vecOut,       \* codec: the result of deserialize_embedding
    cpc           \* codec: position

storeVars == <<dbExists, papers, tableExists, dbRows, txnRows>>
procVars  == <<script, args, pc, sel, total_papers, processed, i, embeddings,
               stdout, progress, exitCode, error, commits, now>>
histVars  == <<rowsAtSelect, rowsAtStart, failedBatch, finished>>
codecVars == <<vecIn, blob, vecOut, cpc>>
vars      == <<storeVars, procVars, histVars, codecVars>>

---------------------------------------------------------------------------
(* Bounds of the model *)

\* identifiers 1..MaxPapers may be in the papers table of the small stores
MaxPapers == 3
\* number of command lines the caller issues one after the other
MaxRuns == 2
\* largest --limit / --batch-size of the small stores
MaxArg == 2
\* number of components of a vector the model adapter returns
Dim == 2
\* largest vector handed to the codec
MaxVecLen == 3
\* largest number of records needing embeddings in the large stores
MaxLarge == 130

---------------------------------------------------------------------------
(* Vector codec *)

\* A 32-bit float is its IEEE-754 fields: sign (1 bit), exp (8), frac (23).
Float32(s, e, f) == [sign |-> s, exp |-> e, frac |-> f]

\* +0.0, -0.0, 1.0, -2.5, the smallest denormal, the largest finite value,
\* +infinity, a quiet NaN with a payload, and a value whose four bytes differ
FloatSamples ==
    { Float32(0, 0, 0), Float32(1, 0, 0), Float32(0, 127, 0),
      Float32(1, 128, 2097152), Float32(0, 0, 1), Float32(0, 254, 8388607),
      Float32(0, 255, 0), Float32(0, 255, 4194305), Float32(0, 2, 197121) }

\* the byte order reversed: most significant first
BytesBE(x) ==
    << x.sign * 128 + x.exp \div 2,
       (x.exp % 2) * 128 + x.frac \div 65536,
       (x.frac \div 256) % 256,
       x.frac % 256 >>

\* the four bytes of one component, least significant first
BytesLE(x) ==
    << x.frac % 256,
       (x.frac \div 256) % 256,
       (x.exp % 2) * 128 + x.frac \div 65536,
       x.sign * 128 + x.exp \div 2 >>

RECURSIVE Flatten(_)
Flatten(ss) == IF ss = <<>> THEN <<>> ELSE Head(ss) \o Flatten(Tail(ss))

\* embedding.astype('float32').tobytes()
serialize_embedding(embedding) ==
    Flatten([k \in 1..Len(embedding) |-> BytesLE(embedding[k])])

\* one float32 from four bytes, least significant first
FromBytesLE(b) ==
    Float32(b[4] \div 128,
            (b[4] % 128) * 2 + b[3] \div 128,
            (b[3] % 128) * 65536 + b[2] * 256 + b[1])

\* np.frombuffer(data, dtype='float32'); a buffer whose size is no multiple
\* of the element size raises ValueError
deserialize_embedding(data) ==
    IF Len(data) % 4 # 0 THEN "ValueError"
    ELSE [k \in 1..(Len(data) \div 4) |->
             FromBytesLE(SubSeq(data, 4 * k - 3, 4 * k))]

---------------------------------------------------------------------------
(* Model adapter and record store *)

MODEL_NAME == "all-MiniLM-L6-v2"

Min(a, b) == IF a < b THEN a ELSE b

SampleSeq ==
    << Float32(0, 127, 0), Float32(1, 128, 2097152), Float32(0, 2, 197121),
       Float32(0, 0, 1), Float32(1, 0, 0) >>

\* model.encode of one text: the network is a fixed function of the text,
\* here a vector of Dim components that depends on the text's length
EncodeText(text) ==
    [k \in 1..Dim |-> SampleSeq[((Len(text) + k) % Len(SampleSeq)) + 1]]

\* f"{title}. {abstract}" if title and abstract else (title or abstract)
CombinedText(title, abstract) ==
    IF title # "" /\ abstract # "" THEN title \o ". " \o abstract
    ELSE IF title # "" THEN title ELSE abstract

PaperText(id) == CombinedText(papers[id].title, papers[id].abstract)

Row(id, model, vector, created) ==
    [paper_id |-> id, model |-> model, vector |-> vector, created |-> created]

\* INSERT OR REPLACE INTO embeddings (paper_id, model, vector, created):
\* paper_id is the primary key, the row in conflict is deleted first
Upsert(rows, id, model, vector, created) ==
    {r \in rows : r.paper_id # id} \cup {Row(id, model, vector, created)}

RECURSIVE UpsertAll(_, _, _, _, _)
UpsertAll(rows, ids, vectors, model, created) ==
    IF ids = <<>> \/ vectors = <<>> THEN rows
    ELSE UpsertAll(Upsert(rows, Head(ids), model,
                          serialize_embedding(Head(vectors)), created),
                   Tail(ids), Tail(vectors), model, created)

EmbeddedIds(rows) == {r.paper_id : r \in rows}

\* the selection without its NOT IN clause
NeedsEmbeddingAll(id, rows) ==
    /\ papers[id].title # ""
    /\ papers[id].abstract # ""

\* WHERE title != '' AND abstract != ''
\*   AND id NOT IN (SELECT paper_id FROM embeddings)
NeedsEmbedding(id, rows) ==
    /\ papers[id].title # ""
    /\ papers[id].abstract # ""
    /\ id \notin EmbeddedIds(rows)

\* The papers table is scanned in the order of its identifiers 1..n (the
\* small stores assign every kind of record to every identifier, so another
\* scan order is a renaming of the identifiers).
ScanOrder == [k \in 1..Cardinality(DOMAIN papers) |-> k]

\* LIMIT n of SQLite: a negative n is no upper bound
SqlLimit(s, n) == IF n < 0 THEN s ELSE SubSeq(s, 1, Min(n, Len(s)))

\* the query of lines 96-106; limit is <<>> for None, <<n>> for --limit n
SelectPapers(rows, limit) ==
    LET Test(id) == NeedsEmbedding(id, rows)
        found == SelectSeq(ScanOrder, Test)
    IN  IF limit # <<>> /\ limit[1] # 0 THEN SqlLimit(found, limit[1])
        ELSE found

\* the slice one short: papers[i:i+batch_size-1]
BatchSliceShort(s, from, size) ==
    SubSeq(s, from + 1, Min(from + size - 1, Len(s)))

\* papers[i:i+batch_size] for batch_size > 0
BatchSlice(s, from, size) == SubSeq(s, from + 1, Min(from + size, Len(s)))

\* f"{percent:.1f}" of (processed / total) * 100, in tenths of a percent.
\* The decimal is rounded to the nearest tenth; where 1000 * processed /
\* total lies exactly between two tenths, the binary64 rounding of the
\* quotient decides the direction: either tenth.
PercentTenths(done, total) ==
    LET q == (1000 * done) \div total
        r == (1000 * done) % total
    IN  IF 2 * r < total THEN {q}
        ELSE IF 2 * r > total THEN {q + 1}
        ELSE {q, q + 1}

ProgressLine(done, total, pct) ==
    [processed |-> done, total |-> total, percent |-> pct]

Commit(place, done) == [at |-> place, processed |-> done]

Summary(code) == [args |-> args, exit |-> code]

\* the commit interval of line 148 and the default of --batch-size
CommitInterval == 100
DefaultBatchSize == 32

\* the count advanced by the batch size: processed += batch_size
NextProcessedBySize(done, batch, batch_size) == done + batch_size

\* processed += len(batch)
NextProcessed(done, batch, batch_size) == done + Len(batch)

\* a commit after every batch
CommitDueAlways(done) == TRUE

\* if processed % 100 == 0: conn.commit()
CommitDue(done) == done % CommitInterval = 0

\* the query without its WHERE clause: the first row of the table
FetchOneAny(id) ==
    IF papers # <<>>
    THEN <<[id |-> 1, title |-> papers[1].title,
            abstract |-> papers[1].abstract]>>
    ELSE <<>>

\* cursor.fetchone() of SELECT id, title, abstract FROM papers WHERE id = ?:
\* <<>> for None, else the row
FetchOne(id) ==
    IF id \in DOMAIN papers
    THEN <<[id |-> id, title |-> papers[id].title,
            abstract |-> papers[id].abstract]>>
    ELSE <<>>

---------------------------------------------------------------------------
(* main: the caller issues the next command line *)

\* print(...): a line of standard output, as its words
Line(tokens) == tokens

main ==
    /\ pc \in {"idle", "exited"}
    /\ script # <<>>
    /\ args' = Head(script)
    /\ script' = Tail(script)
    /\ pc' = IF Head(script).paper_id # <<>> THEN "generate_paper_embedding"
             ELSE "generate_embeddings"
    /\ sel' = <<>> /\ total_papers' = 0 /\ processed' = 0 /\ i' = 0
    /\ embeddings' = <<>> /\ stdout' = <<>> /\ progress' = <<>>
    /\ exitCode' = -1 /\ error' = "" /\ commits' = <<>>
    /\ now' = now + 1
    /\ rowsAtStart' = dbRows /\ rowsAtSelect' = {} /\ failedBatch' = {}
    /\ UNCHANGED <<storeVars, finished, codecVars>>

\* The process ends with status code after printing lines: the connection
\* goes with it, and what it had not committed is lost.
Terminate(code, kind, lines, committed) ==
    /\ pc' = "exited"
    /\ exitCode' = code
    /\ error' = kind
    /\ stdout' = stdout \o lines
    /\ dbRows' = committed
    /\ txnRows' = committed
    /\ finished' = Append(finished, Summary(code))

---------------------------------------------------------------------------
(* generate_embeddings: the batch pipeline *)

\* lines 61-63: index.db is missing
GE_DatabaseNotFound ==
    /\ pc = "generate_embeddings"
    /\ ~dbExists
    /\ Terminate(1, "StoreNotFound", <<Line(<<"Error:", "Database", "not", "found", "at",
                             "index.db">>)>>, dbRows)
    /\ UNCHANGED <<dbExists, papers, tableExists, script, args, sel,
                   total_papers, processed, i, embeddings, progress, commits,
                   now, rowsAtSelect, rowsAtStart, failedBatch, codecVars>>

\* line 66: SentenceTransformer(model_name) raises
GE_ModelLoadError ==
    /\ pc = "generate_embeddings"
    /\ dbExists
    /\ Terminate(1, "ModelLoadError",
                 <<Line(<<"Loading", "model:", args.model>>)>>, dbRows)
    /\ UNCHANGED <<dbExists, papers, tableExists, script, args, sel,
                   total_papers, processed, i, embeddings, progress, commits,
                   now, rowsAtSelect, rowsAtStart, failedBatch, codecVars>>

\* lines 65-114: load the model, connect, create the embeddings table when
\* it is missing (and commit), select the papers without embeddings
GE_Select ==
    /\ pc = "generate_embeddings"
    /\ dbExists
    /\ tableExists' = TRUE
    /\ commits' = IF tableExists THEN commits
                  ELSE Append(commits, Commit("create_table", 0))
    /\ rowsAtSelect' = txnRows
    /\ LET found == SelectPapers(txnRows, args.limit)
           head  == <<Line(<<"Loading", "model:", args.model>>),
                      Line(<<"Model", "loaded.", "Embedding", "dimension:",
                             ToString(Dim)>>)>>
                    \o (IF tableExists THEN <<>>
                        ELSE <<Line(<<"Creating", "embeddings", "table...">>)>>)
           foundLine == Line(<<"Found", ToString(Len(found)), "papers", "to",
                               "process">>)
       IN  IF found = <<>>
           THEN \* lines 108-110: nothing to do, main returns
                /\ Terminate(0, "", head \o <<Line(<<"No", "papers", "need",
                                                 "embeddings.">>)>>, dbRows)
                /\ UNCHANGED <<sel, total_papers>>
           ELSE IF args.batch_size = 0
           THEN \* line 118: range() arg 3 must not be zero (ValueError)
                /\ Terminate(1, "ValueError", head \o <<foundLine>>, dbRows)
                /\ sel' = found
                /\ total_papers' = Len(found)
           ELSE /\ pc' = "loop"
                /\ sel' = found
                /\ total_papers' = Len(found)
                /\ stdout' = stdout \o head \o <<foundLine>>
                /\ UNCHANGED <<exitCode, error, dbRows, txnRows, finished>>
    /\ UNCHANGED <<dbExists, papers, script, args, processed, i, embeddings,
                   progress, now, rowsAtStart, failedBatch, codecVars>>

\* range(0, total_papers, batch_size) has a next element
HasNextBatch == args.batch_size > 0 /\ i < total_papers

CurrentBatch == BatchSlice(sel, i, args.batch_size)

\* lines 119-131: the texts of the batch, and model.encode of them
GE_Encode ==
    /\ pc = "loop"
    /\ HasNextBatch
    /\ embeddings' = [k \in 1..Len(CurrentBatch) |->
                         EncodeText(PaperText(CurrentBatch[k]))]
    /\ pc' = "store"
    /\ UNCHANGED <<storeVars, script, args, sel, total_papers, processed, i,
                   stdout, progress, exitCode, error, commits, now, histVars,
                   codecVars>>

\* the batch encoded and upserted record by record, the connection committed
\* on the way out: the failure comes after the first record of the batch
GE_EncodeErrorPartial ==
    /\ pc = "loop"
    /\ HasNextBatch
    /\ failedBatch' = {CurrentBatch[k] : k \in 1..Len(CurrentBatch)}
    /\ Terminate(1, "ModelRuntimeError", <<>>,
                 Upsert(txnRows, CurrentBatch[1], args.model,
                        serialize_embedding(
                            EncodeText(PaperText(CurrentBatch[1]))), now))
    /\ UNCHANGED <<dbExists, papers, tableExists, script, args, sel,
                   total_papers, processed, i, embeddings, progress, commits,
                   now, rowsAtSelect, rowsAtStart, codecVars>>

\* line 131: model.encode raises; the process ends with a traceback
GE_EncodeError ==
    /\ pc = "loop"
    /\ HasNextBatch
    /\ failedBatch' = {CurrentBatch[k] : k \in 1..Len(CurrentBatch)}
    /\ Terminate(1, "ModelRuntimeError", <<>>, dbRows)
    /\ UNCHANGED <<dbExists, papers, tableExists, script, args, sel,
                   total_papers, processed, i, embeddings, progress, commits,
                   now, rowsAtSelect, rowsAtStart, codecVars>>

\* lines 134-149: upsert the batch, count it, print the progress line,
\* commit when the count is a multiple of 100
GE_Store ==
    /\ pc = "store"
    /\ LET done == NextProcessed(processed, CurrentBatch, args.batch_size)
           rows == UpsertAll(txnRows, CurrentBatch, embeddings, args.model, now)
       IN  /\ txnRows' = rows
           /\ processed' = done
           /\ \E pct \in PercentTenths(done, total_papers) :
                 progress' = Append(progress,
                                    ProgressLine(done, total_papers, pct))
           /\ IF CommitDue(done)
              THEN /\ dbRows' = rows
                   /\ commits' = Append(commits, Commit("loop", done))
              ELSE UNCHANGED <<dbRows, commits>>
    /\ i' = i + args.batch_size
    /\ embeddings' = <<>>
    /\ pc' = "loop"
    /\ UNCHANGED <<dbExists, papers, tableExists, script, args, sel,
                   total_papers, stdout, exitCode, error, now, histVars,
                   codecVars>>

\* the final commit left out
FinalCommitLost(committed, pending) == committed

\* line 151: conn.commit() makes the connection's rows the committed ones
FinalCommit(committed, pending) == pending

\* lines 151-154: the range is exhausted; commit, close, report
GE_Done ==
    /\ pc = "loop"
    /\ ~HasNextBatch
    /\ commits' = Append(commits, Commit("final", processed))
    /\ Terminate(0, "", <<Line(<<"Done!", "Generated", "embeddings", "for",
                             ToString(processed), "papers.">>)>>,
                 FinalCommit(dbRows, txnRows))
    /\ UNCHANGED <<dbExists, papers, tableExists, script, args, sel,
                   total_papers, processed, i, embeddings, progress, now,
                   rowsAtSelect, rowsAtStart, failedBatch, codecVars>>

---------------------------------------------------------------------------
(* generate_paper_embedding: one record by identifier *)

\* lines 162-164
GP_DatabaseNotFound ==
    /\ pc = "generate_paper_embedding"
    /\ ~dbExists
    /\ Terminate(1, "StoreNotFound", <<Line(<<"ERROR:", "Database", "not", "found", "at",
                             "index.db">>)>>, dbRows)
    /\ UNCHANGED <<dbExists, papers, tableExists, script, args, sel,
                   total_papers, processed, i, embeddings, progress, commits,
                   now, rowsAtSelect, rowsAtStart, failedBatch, codecVars>>

\* lines 166-194: connect, fetch the record; leave when it is missing or has
\* no text; create the embeddings table when it is missing (and commit).
\* sel holds the identifier of the fetched row (line 177).
GP_Fetch ==
    /\ pc = "generate_paper_embedding"
    /\ dbExists
    /\ LET row == FetchOne(args.paper_id[1])
       IN  IF row = <<>>
           THEN /\ Terminate(1, "RecordNotFound",
                             <<Line(<<"ERROR:", "Paper",
                                      ToString(args.paper_id[1]), "not",
                                      "found">>)>>, dbRows)
                /\ UNCHANGED <<tableExists, commits, sel>>
           ELSE IF row[1].title = "" /\ row[1].abstract = ""
           THEN /\ Terminate(1, "EmptyContent",
                             <<Line(<<"ERROR:", "Paper", ToString(row[1].id),
                                      "has", "no", "title", "or",
                                      "abstract">>)>>, dbRows)
                /\ UNCHANGED <<tableExists, commits, sel>>
           ELSE /\ tableExists' = TRUE
                /\ commits' = IF tableExists THEN commits
                              ELSE Append(commits, Commit("create_table", 0))
                /\ sel' = <<row[1].id>>
                /\ pc' = "encode_paper"
                /\ UNCHANGED <<stdout, exitCode, error, dbRows, txnRows,
                               finished>>
    /\ UNCHANGED <<dbExists, papers, script, args, total_papers, processed, i,
                   embeddings, progress, now, rowsAtSelect, rowsAtStart,
                   failedBatch, codecVars>>

\* lines 196-198: SentenceTransformer(model_name) or model.encode raises
GP_ModelError ==
    /\ pc = "encode_paper"
    /\ failedBatch' = {sel[1]}
    /\ Terminate(1, "ModelRuntimeError", <<>>, dbRows)
    /\ UNCHANGED <<dbExists, papers, tableExists, script, args, sel,
                   total_papers, processed, i, embeddings, progress, commits,
                   now, rowsAtSelect, rowsAtStart, codecVars>>

\* lines 196-208: encode the text, upsert the record, commit, close, report
GP_Store ==
    /\ pc = "encode_paper"
    /\ embeddings' = <<EncodeText(PaperText(sel[1]))>>
    /\ commits' = Append(commits, Commit("paper", 1))
    /\ Terminate(0, "", <<Line(<<"OK:", "Generated", "embedding", "for",
                             ToString(sel[1])>>)>>,
                 Upsert(txnRows, sel[1], args.model,
                        serialize_embedding(EncodeText(PaperText(sel[1]))),
                        now))
    /\ UNCHANGED <<dbExists, papers, tableExists, script, args, sel,
                   total_papers, processed, i, progress, now, rowsAtSelect,
                   rowsAtStart, failedBatch, codecVars>>

---------------------------------------------------------------------------
(* The codec on its own *)

\* serialize_embedding(vecIn)
Serialize ==
    /\ cpc = "vector"
    /\ blob' = serialize_embedding(vecIn)
    /\ cpc' = "bytes"
    /\ UNCHANGED <<storeVars, procVars, histVars, vecIn, vecOut>>

\* deserialize_embedding(blob)
Deserialize ==
    /\ cpc = "bytes"
    /\ vecOut' = deserialize_embedding(blob)
    /\ cpc' = "done"
    /\ UNCHANGED <<storeVars, procVars, histVars, vecIn, blob>>

---------------------------------------------------------------------------
(* Initial states *)

RECURSIVE SeqsUpTo(_, _)
SeqsUpTo(S, n) ==
    IF n = 0 THEN {<<>>}
    ELSE LET shorter == SeqsUpTo(S, n - 1)
         IN  shorter \cup {Append(q, x) : q \in shorter, x \in S}

NoArgs == [model |-> MODEL_NAME, limit |-> <<>>,
           batch_size |-> DefaultBatchSize, paper_id |-> <<>>]

ProcessIdle ==
    /\ args = NoArgs /\ pc = "idle"
    /\ sel = <<>> /\ total_papers = 0 /\ processed = 0 /\ i = 0
    /\ embeddings = <<>> /\ stdout = <<>> /\ progress = <<>>
    /\ exitCode = -1 /\ error = "" /\ commits = <<>> /\ now = 0
    /\ rowsAtSelect = {} /\ rowsAtStart = {} /\ failedBatch = {}
    /\ finished = <<>>

CodecOff == vecIn = <<>> /\ blob = <<>> /\ vecOut = <<>> /\ cpc = "off"

\* a record the ingestion wrote: either field may be empty
PaperKinds == [title : {"", "Graphs"}, abstract : {"", "We study."}]

\* a row an earlier run left in the embeddings table
PriorRow(id) ==
    Row(id, MODEL_NAME,
        serialize_embedding([k \in 1..Dim |-> Float32(0, 0, 0)]), 0)

\* python3 generate_embeddings.py <cache_dir> [--limit N] [--batch-size N]
BatchCommands(limits, sizes) ==
    [model : {MODEL_NAME}, limit : limits, batch_size : sizes,
     paper_id : {<<>>}]

\* python3 generate_embeddings.py <cache_dir> --paper-id ID
PaperCommands(ids) ==
    [model : {MODEL_NAME}, limit : {<<>>}, batch_size : {DefaultBatchSize},
     paper_id : {<<id>> : id \in ids}]

SmallCommands ==
    BatchCommands({<<>>} \cup {<<n>> : n \in 0..MaxArg}, -1..MaxArg)
    \cup PaperCommands(1..(MaxPapers + 1))

\* Small stores: every assignment of the kinds of record to the identifiers
\* 1..n, the records with a title and an abstract with and without a row of
\* an earlier run; the caller issues one command line up to MaxRuns times in
\* succession.
Init ==
    /\ dbExists \in BOOLEAN
    /\ \E n \in 0..MaxPapers :
          /\ papers \in [1..n -> PaperKinds]
          /\ \E have \in SUBSET {id \in 1..n : /\ papers[id].title # ""
                                                /\ papers[id].abstract # ""} :
                dbRows = {PriorRow(id) : id \in have}
    /\ ~dbExists => papers = <<>> /\ dbRows = {}
    /\ tableExists \in BOOLEAN
    /\ (dbRows # {} => tableExists) /\ (~dbExists => ~tableExists)
    /\ txnRows = dbRows
    /\ script \in {[k \in 1..r |-> c] : c \in SmallCommands, r \in 1..MaxRuns}
    /\ ProcessIdle
    /\ CodecOff

LargeCommands ==
    BatchCommands({<<>>}, {-1, 0, 1, DefaultBatchSize})
    \cup PaperCommands({1, MaxLarge + 1})

\* Large stores: 65 or MaxLarge records, all needing embeddings, and one
\* command line.
InitLarge ==
    /\ dbExists \in BOOLEAN
    /\ \E n \in {0, 65, MaxLarge} :
          papers = [k \in 1..n |-> [title |-> "Graphs", abstract |-> "We study."]]
    /\ dbExists = (papers # <<>>)
    /\ dbRows = {}
    /\ tableExists \in BOOLEAN
    /\ ~dbExists => ~tableExists
    /\ txnRows = dbRows
    /\ script \in {<<c>> : c \in LargeCommands}
    /\ ProcessIdle
    /\ CodecOff

\* The codec: every vector of up to MaxVecLen components
InitCodec ==
    /\ dbExists = FALSE /\ papers = <<>> /\ tableExists = FALSE
    /\ dbRows = {} /\ txnRows = {}
    /\ script = <<>>
    /\ ProcessIdle
    /\ vecIn \in SeqsUpTo(FloatSamples, MaxVecLen)
    /\ blob = <<>> /\ vecOut = <<>> /\ cpc = "vector"

---------------------------------------------------------------------------
(* Specifications *)

Next ==
    \/ main
    \/ GE_DatabaseNotFound
    \/ GE_ModelLoadError
    \/ GE_Select
    \/ GE_Encode
    \/ GE_EncodeError
    \/ GE_Store
    \/ GE_Done
    \/ GP_DatabaseNotFound
    \/ GP_Fetch
    \/ GP_ModelError
    \/ GP_Store

NextCodec == Serialize \/ Deserialize

Spec == Init /\ [][Next]_vars

SpecLarge == InitLarge /\ [][Next]_vars

SpecCodec == InitCodec /\ [][NextCodec]_vars

---------------------------------------------------------------------------
(* Properties *)

RowsOf(rows, id) == {r \in rows : r.paper_id = id}

\* the process is a batch run that has selected its work
BatchRunSelected ==
    /\ args.paper_id = <<>>
    /\ pc \in {"loop", "store", "exited"}
    /\ error \notin {"StoreNotFound", "ModelLoadError"}

\* the process is a batch run that has ended with status 0
BatchRunSucceeded ==
    /\ args.paper_id = <<>>
    /\ pc = "exited"
    /\ exitCode = 0

LastProgress == progress[Len(progress)]

\* the tokens pat occur in the line, one after the other
Contains(line, pat) ==
    \E k \in 1..(Len(line) - Len(pat) + 1) :
        SubSeq(line, k, k + Len(pat) - 1) = pat

\* C1: when a batch run with no --limit and a batch size >= 1 has ended
\* successfully, every record with a non-empty title and a non-empty abstract
\* that had no row when the work was selected has exactly one committed row.
C1_NeededRecordsEmbedded ==
    (BatchRunSucceeded /\ args.limit = <<>> /\ args.batch_size >= 1) =>
        \A id \in DOMAIN papers :
            ( /\ papers[id].title # ""
              /\ papers[id].abstract # ""
              /\ RowsOf(rowsAtSelect, id) = {} )
            => Cardinality(RowsOf(dbRows, id)) = 1

\* a run of two batches, the second one partial, that embedded three records
C1_Witness ==
    /\ BatchRunSucceeded /\ args.limit = <<>>
    /\ args.batch_size = 2 /\ total_papers = 3
    /\ rowsAtSelect = {}
    /\ Cardinality(dbRows) = 3

\* C2: from the selection on, a batch run leaves the row of every identifier
\* that had one at the selection as it was (model, vector, created), in the
\* connection's view and in the committed store.
C2_PriorRowsUntouched ==
    BatchRunSelected =>
        \A id \in {r.paper_id : r \in rowsAtSelect} :
            /\ RowsOf(txnRows, id) = RowsOf(rowsAtSelect, id)
            /\ RowsOf(dbRows, id) = RowsOf(rowsAtSelect, id)

\* a run that wrote rows beside the rows of an earlier run
C2_Witness ==
    /\ BatchRunSucceeded
    /\ rowsAtSelect # {}
    /\ processed >= 1
    /\ Cardinality(dbRows) > Cardinality(rowsAtSelect)

\* C3 (as amended): in a batch run with a batch size >= 1 that selected
\* total > 0 records, the k-th progress line reports the same total and a
\* processed count that is the one before plus the size of the k-th batch,
\* strictly increasing and at most total; the lines are one per stored
\* batch; after a successful end the last line reports processed = total at
\* 100.0 percent.
C3_ProgressLines ==
    (BatchRunSelected /\ total_papers > 0 /\ args.batch_size >= 1) =>
        /\ \A k \in 1..Len(progress) :
              LET before == IF k = 1 THEN 0 ELSE progress[k - 1].processed
              IN  /\ progress[k].total = total_papers
                  /\ progress[k].processed > before
                  /\ progress[k].processed <= total_papers
                  /\ progress[k].processed - before =
                        Min(args.batch_size,
                            total_papers - (k - 1) * args.batch_size)
        /\ Len(progress) * args.batch_size = i
        /\ processed = (IF progress = <<>> THEN 0 ELSE LastProgress.processed)
        /\ (pc = "exited" /\ exitCode = 0) =>
              /\ progress # <<>>
              /\ LastProgress.processed = total_papers
              /\ LastProgress.percent = 1000

\* a successful run of a full batch and a partial one
C3_Witness ==
    /\ BatchRunSucceeded
    /\ args.batch_size = 2 /\ total_papers = 3
    /\ Len(progress) = 2
    /\ LastProgress.percent = 1000

\* C3 (as claimed, for every batch size): after a successful batch run that
\* selected total > 0 records there is a last progress line, and it reports
\* processed = total at 100.0 percent.
C3_AsClaimed ==
    (BatchRunSucceeded /\ total_papers > 0) =>
        /\ progress # <<>>
        /\ LastProgress.processed = total_papers
        /\ LastProgress.percent = 1000

\* the commits of the run after the selection
RunCommits ==
    LET AfterSelection(c) == c.at # "create_table"
    IN  SelectSeq(commits, AfterSelection)

\* a batch run over 65 selected records with batch size 32
Scenario65 ==
    /\ BatchRunSelected
    /\ total_papers = 65
    /\ args.batch_size = 32

ProcessedCounts == [k \in 1..Len(progress) |-> progress[k].processed]

\* C4 (as amended): with 65 records selected and batch size 32 no commit
\* follows any batch, and after the successful end there are the three
\* progress lines 32, 64, 65 of total 65 and one commit, the final one, at
\* processed = 65.
C4_Scenario ==
    Scenario65 =>
        /\ \A k \in 1..Len(commits) : commits[k].at # "loop"
        /\ (pc = "exited" /\ exitCode = 0) =>
              /\ ProcessedCounts = <<32, 64, 65>>
              /\ \A k \in 1..Len(progress) : progress[k].total = 65
              /\ RunCommits = <<Commit("final", 65)>>

C4_Witness ==
    /\ Scenario65
    /\ pc = "exited" /\ exitCode = 0
    /\ Len(progress) = 3
    /\ Cardinality(dbRows) = 65

\* C4 (as claimed): ... no commit after the batches ending at 32 and 64, one
\* commit at processed = 65 and one more at the end of the run.
C4_AsClaimed ==
    (Scenario65 /\ pc = "exited" /\ exitCode = 0) =>
        /\ ProcessedCounts = <<32, 64, 65>>
        /\ \A k \in 1..Len(progress) : progress[k].total = 65
        /\ RunCommits = <<Commit("loop", 65), Commit("final", 65)>>

\* the process embeds one record by an identifier no record has
AbsentPaperRun ==
    /\ pc # "idle"
    /\ args.paper_id # <<>>
    /\ args.paper_id[1] \notin DOMAIN papers

\* C5: by-identifier mode with an identifier that no record has never gets
\* to encode, writes no row, commits nothing but the creation of the table,
\* and ends with a non-zero status after a line containing "not found".
C5_AbsentPaper ==
    AbsentPaperRun =>
        /\ pc # "encode_paper"
        /\ txnRows = rowsAtStart
        /\ dbRows = rowsAtStart
        /\ \A k \in 1..Len(commits) : commits[k].at = "create_table"
        /\ pc = "exited" =>
              /\ exitCode # 0
              /\ \E k \in 1..Len(stdout) :
                    Contains(stdout[k], <<"not", "found">>)

\* the store exists and holds records and rows, the identifier is unknown
C5_Witness ==
    /\ AbsentPaperRun
    /\ pc = "exited"
    /\ error = "RecordNotFound"
    /\ papers # <<>> /\ dbRows # {}

\* the process that ended before the running (or last) one
PrevIndex == IF pc = "exited" THEN Len(finished) - 1 ELSE Len(finished)

\* a batch run with no --limit follows a successful batch run with no --limit
SecondRun ==
    /\ pc # "idle"
    /\ PrevIndex >= 1
    /\ args.paper_id = <<>> /\ args.limit = <<>>
    /\ finished[PrevIndex].args.paper_id = <<>>
    /\ finished[PrevIndex].args.limit = <<>>
    /\ finished[PrevIndex].exit = 0

\* the run selects nothing and writes nothing; once its model is loaded it
\* reports that no papers need embeddings and ends with status 0
ReportsNoWork ==
    /\ pc \notin {"loop", "store"}
    /\ sel = <<>> /\ total_papers = 0
    /\ txnRows = rowsAtStart /\ dbRows = rowsAtStart
    /\ (pc = "exited" /\ error # "ModelLoadError") =>
          /\ exitCode = 0
          /\ \E k \in 1..Len(stdout) :
                stdout[k] = <<"No", "papers", "need", "embeddings.">>

\* C6 (as amended): when the first run had a batch size >= 1, the second run
\* selects zero records, reports "No papers need embeddings.", ends
\* successfully and writes no row.
C6_SecondRunNoWork ==
    (SecondRun /\ finished[PrevIndex].args.batch_size >= 1) => ReportsNoWork

\* the second run ended after a first run that embedded records
C6_Witness ==
    /\ SecondRun /\ finished[PrevIndex].args.batch_size >= 1
    /\ pc = "exited" /\ exitCode = 0
    /\ \E r \in dbRows : r.created = 1
    /\ now = 2

\* C6 (as claimed, for every batch size of the first run)
C6_AsClaimed == SecondRun => ReportsNoWork

\* C7: deserialize_embedding(serialize_embedding(v)) is v, component for
\* component and in the same order, for every vector v of 32-bit floats.
C7_RoundTrip == cpc = "done" => vecOut = vecIn

\* a vector of a NaN with a payload and a value whose four bytes differ
C7_Witness ==
    /\ cpc = "done"
    /\ vecIn = <<Float32(0, 255, 4194305), Float32(0, 2, 197121)>>
    /\ Len(blob) = 8

\* C8 (as claimed): a batch run given --limit N with N >= 0 selects at most N
\* records and writes at most N rows.
C8_AsClaimed ==
    (BatchRunSelected /\ args.limit # <<>> /\ args.limit[1] >= 0) =>
        /\ total_papers <= args.limit[1]
        /\ Cardinality(txnRows \ rowsAtSelect) <= args.limit[1]
        /\ Cardinality(dbRows \ rowsAtSelect) <= args.limit[1]

\* C9 (as claimed): between two batches of a batch run with a batch size
\* >= 1, at most 99 upserted rows are not yet committed.
C9_AsClaimed ==
    ( /\ BatchRunSelected /\ pc = "loop"
      /\ args.batch_size >= 1
      /\ 0 < i /\ i < total_papers )
    => Cardinality(txnRows \ dbRows) <= 99

\* C10: the step in which model.encode fails for a batch of a batch run
\* finds no row of any record of that batch written, leaves none in the
\* store, and leaves every committed row in the store as it was.
C10_FailedBatchUnwritten ==
    [][ (pc = "loop" /\ pc' = "exited" /\ error' = "ModelRuntimeError") =>
            /\ failedBatch' # {}
            /\ \A id \in failedBatch' :
                  /\ RowsOf(txnRows, id) = {}
                  /\ RowsOf(dbRows', id) = {}
            /\ \A r \in dbRows : RowsOf(dbRows', r.paper_id) = {r}
      ]_vars

\* the encode call failed after a commit in the loop and a batch stored since
C10_Witness ==
    /\ args.paper_id = <<>>
    /\ pc = "exited" /\ error = "ModelRuntimeError"
    /\ failedBatch # {}
    /\ Cardinality(dbRows) = CommitInterval
    /\ processed > CommitInterval

====
